---- MODULE Spec2Model ----
(***************************************************************************)
(* kstorage: RCU-protected storage groups, each a sorted array snapshot    *)
(* with binary search, copy-on-write writers under a per-group spinlock    *)
(* and lockless readers (src/kernel/patch/common/kstorage.c).              *)
(***************************************************************************)
EXTENDS Integers, Sequences, FiniteSets, Bags, TLC

\* ------------------------------------------------------------ constants
KSTRORAGE_MAX_GROUP_NUM == 4

NULL == 0          \* the null pointer; heap objects are numbered from 1
UNINIT == 0 - 1    \* an array slot kvmalloc left uninitialised

ENOENT == 2
ENOMEM == 12
EFAULT == 14
EINVAL == 22

\* ------------------------------------------------------------ bounds
NThreads   == 2    \* threads of the concurrent specifications
ConcCalls  == 3    \* calls other than group allocation, concurrent specifications
ConcAllocs == 1    \* try_alloc_kstroage_group calls, concurrent specifications
UpdCalls   == 5    \* write/remove calls, one-thread update specification
ReadCalls  == 3    \* write/read calls, one-thread read specification
GrpCalls   == 2    \* calls other than group allocation, group specification
GrpAllocs  == 6    \* single try_alloc_kstroage_group calls, group specification
RaceAllocs == 4    \* try_alloc_kstroage_group calls, allocation race specification
FailCalls  == 3    \* write/remove/size calls, failure specification
FailAllocs == 2    \* try_alloc_kstroage_group calls, failure specification
ScanCalls  == 4    \* write/remove/list/scan calls, scan specification
GetCalls   == 4    \* write/remove/get calls, borrowed view specification
LiveCalls  == 3    \* write/remove/read/size calls, progress specification

Threads == 1..NThreads
Groups  == 0..(KSTRORAGE_MAX_GROUP_NUM - 1)

VARIABLES
    used_max_group,  \* static int used_max_group
    groups,          \* static struct ks_group groups[]: [lock, snap]
    snapshots,       \* heap: struct ks_group_snapshot, by address: its items array
    kstorages,       \* heap: struct kstorage, by address: [gid, did, data]
    freed,           \* heap objects kfree/kvfree has released: <<kind, address>>
    rcu_cbs,         \* call_rcu callbacks pending: [kind, addr, wait]
    handed,          \* bag of every object call_rcu was given: <<kind, address>>
    pc,              \* each thread's position
    loc,             \* each thread's arguments and locals
    ret,             \* the last completed call and its result
    ref,             \* reference ordered map per group (put / delete-if-present)
    published,       \* every snapshot that was ever a group's current pointer
    ncalls,          \* calls other than group allocation started so far
    nallocs,         \* try_alloc_kstroage_group calls started so far
    issued           \* the group ids try_alloc_kstroage_group returned, in order

vars == <<used_max_group, groups, snapshots, kstorages, freed, rcu_cbs, handed,
          pc, loc, ret, ref, published,
          ncalls, nallocs, issued>>

\* ------------------------------------------------------------ helpers
Min(a, b) == IF a < b THEN a ELSE b

\* s->size of the snapshot at address s.
SizeOf(s) == Len(snapshots[s])

\* s->items[i] (C index, from 0).
ItemAt(s, i) == snapshots[s][i + 1]

\* s->items[i]->did; an uninitialised slot has no did to speak of.
DidAt(s, i) == kstorages[ItemAt(s, i)].did

\* ks_bsearch's loop: lo, hi are the C locals.
RECURSIVE ks_bsearch_loop(_, _, _, _)
ks_bsearch_loop(s, did, lo, hi) ==
    IF lo <= hi
    THEN LET mid  == lo + ((hi - lo) \div 2)
             mdid == DidAt(s, mid)
         IN  IF mdid = did THEN mid
             ELSE IF mdid < did THEN ks_bsearch_loop(s, did, mid + 1, hi)
             ELSE ks_bsearch_loop(s, did, lo, mid - 1)
    ELSE 0 - (lo + 1)

\* Mutant of ks_bsearch: a miss is reported as a hit on the nearest slot.
ks_bsearch_nearest(s, did) ==
    LET r == ks_bsearch_loop(s, did, 0, SizeOf(s) - 1)
    IN  IF r < 0 /\ SizeOf(s) > 0 THEN Min((0 - r) - 1, SizeOf(s) - 1) ELSE r

ks_bsearch(s, did) == ks_bsearch_loop(s, did, 0, SizeOf(s) - 1)

\* ks_clone_snapshot's items array when both allocations succeed: new_size
\* slots, the first min(old->size, new_size) copied from old.
ks_clone_snapshot(old, new_size) ==
    [i \in 1..new_size |->
        IF old # NULL /\ SizeOf(old) > 0 /\ i <= Min(SizeOf(old), new_size)
        THEN snapshots[old][i]
        ELSE UNINIT]

\* memmove/memcpy(&dst[d], &src[s], n pointers), on arrays indexed from 0.
CopyPtrs(dst, d, src, s, n) ==
    [i \in 1..Len(dst) |->
        IF i - 1 >= d /\ i - 1 < d + n THEN src[(i - 1) - d + s + 1] ELSE dst[i]]

\* arr[i] = v, C index.
SetAt(arr, i, v) == [arr EXCEPT ![i + 1] = v]

\* Mutant of WriteReplace: the new item is not stored, the old one stays.
WriteReplace_keep_old(old, idx, new_item) == ks_clone_snapshot(old, SizeOf(old))

\* write_kstorage's replace branch: the new items array.
WriteReplace(old, idx, new_item) ==
    SetAt(ks_clone_snapshot(old, SizeOf(old)), idx, new_item)

\* Mutant of WriteInsert: the tail is not shifted right before the store.
WriteInsert_no_shift(old, ins, new_item) ==
    SetAt(ks_clone_snapshot(old, SizeOf(old) + 1), ins, new_item)

\* write_kstorage's insert branch: shift the tail right, place the new item.
WriteInsert(old, ins, new_item) ==
    LET ns0 == ks_clone_snapshot(old, SizeOf(old) + 1)
        ns1 == IF SizeOf(old) - ins > 0
               THEN CopyPtrs(ns0, ins + 1, ns0, ins, SizeOf(old) - ins)
               ELSE ns0
    IN  SetAt(ns1, ins, new_item)

\* Mutant of RemoveAt: the right segment is not shifted left.
RemoveAt_no_shift(old, idx) ==
    LET ns0 == ks_clone_snapshot(old, SizeOf(old) - 1)
    IN  IF idx > 0 THEN CopyPtrs(ns0, 0, snapshots[old], 0, idx) ELSE ns0

\* remove_kstorage: left segment kept, right segment shifted left.
RemoveAt(old, idx) ==
    LET ns0 == ks_clone_snapshot(old, SizeOf(old) - 1)
        ns1 == IF idx > 0
               THEN CopyPtrs(ns0, 0, snapshots[old], 0, idx)
               ELSE ns0
    IN  IF SizeOf(old) - idx - 1 > 0
        THEN CopyPtrs(ns1, idx, snapshots[old], idx + 1, SizeOf(old) - idx - 1)
        ELSE ns1

\* The record ids and bytes a snapshot holds, as a set of <<did, data>>.
View(s) ==
    IF s = NULL THEN {}
    ELSE { <<kstorages[snapshots[s][i]].did, kstorages[snapshots[s][i]].data>> :
             i \in { j \in 1..Len(snapshots[s]) : snapshots[s][j] # UNINIT } }

\* Reference map operations.
RefPut(m, did, data) == { p \in m : p[1] # did } \cup { <<did, data>> }
RefDel(m, did)       == { p \in m : p[1] # did }

\* ------------------------------------------------------------ threads
NoLoc == [op |-> "none", gid |-> 0, did |-> 0, data |-> <<>>, offset |-> 0,
          len |-> 0, user |-> FALSE,
          new_item |-> NULL, old |-> NULL, idx |-> 0, ns |-> NULL,
          old_item |-> NULL, s |-> NULL, id |-> 0, i |-> 0, seen |-> {},
          pre |-> <<>>, ks |-> NULL]

NoRet == [op |-> "none", gid |-> 0, did |-> 0, data |-> <<>>, offset |-> 0,
          len |-> 0, rc |-> 0, out |-> <<>>]

\* Threads inside an RCU read-side critical section.
ReaderPcs == {"r_read", "e_loop", "l_copy", "g_size", "c_get", "c_use"}
InRcu(t) == pc[t] \in ReaderPcs

\* The positions between spin_lock's return and spin_unlock.
WriterCsPcs == {"w_build", "w_publish", "w_unlock", "m_build", "m_publish", "m_unlock"}

\* rcu_read_unlock by t: t no longer holds up any pending callback.
RcuUnlock(cbs, t) == { [c EXCEPT !.wait = c.wait \ {t}] : c \in cbs }

\* Mutant of CallRcu: the object is released without a grace period, as a
\* direct kvfree in place of call_rcu would.
CallRcu_no_grace(kind, addr) ==
    [kind |-> kind, addr |-> addr, wait |-> {}]

\* call_rcu(&obj->rcu, ...): the callback waits for every reader now inside a
\* read-side critical section.
CallRcu(kind, addr) ==
    [kind |-> kind, addr |-> addr, wait |-> { t \in Threads : InRcu(t) }]

\* Mutant of rcu_read_unlock_nested: the caller of get_kstorage holds no read
\* section of its own, so get_kstorage's rcu_read_unlock ends the protection.
rcu_read_unlock_outermost(cbs, t) == RcuUnlock(cbs, t)

\* rcu_read_unlock inside an enclosing read-side critical section: the
\* section goes on, t still holds up the callbacks.
rcu_read_unlock_nested(cbs, t) == cbs

\* Mutant of spin_unlock: the lock is left held.
spin_unlock_leaked(g, gid) == g

\* spin_unlock(&groups[gid].lock) on the group table g.
spin_unlock(g, gid) == [g EXCEPT ![gid].lock = 0]

\* Mutant of kvfree: the object is not released.
kvfree_leak(f, kind, addr) == f

\* kvfree(obj) on the set f of released objects.
kvfree(f, kind, addr) == f \cup {<<kind, addr>>}

Return(t, rc, out) ==
    /\ pc' = [pc EXCEPT ![t] = "idle"]
    /\ ret' = [op |-> loc[t].op, gid |-> loc[t].gid,
                                  did |-> loc[t].did, data |-> loc[t].data,
                                  offset |-> loc[t].offset, len |-> loc[t].len,
                                  rc |-> rc, out |-> out]
    /\ loc' = [loc EXCEPT ![t] = NoLoc]

\* A call returns at once, before it touched any local.
ReturnNow(t, op, gid, did, data, offset, len, rc) ==
    /\ pc' = [pc EXCEPT ![t] = "idle"]
    /\ ret' = [op |-> op, gid |-> gid, did |-> did, data |-> data,
                                  offset |-> offset, len |-> len, rc |-> rc,
                                  out |-> <<>>]
    /\ loc' = loc

\* ------------------------------------------------------------ kstorage_init
Init ==
    /\ used_max_group = 0 - 1
    /\ groups = [g \in Groups |-> [lock |-> 0, snap |-> NULL]]
    /\ snapshots = <<>>
    /\ kstorages = <<>>
    /\ freed = {}
    /\ rcu_cbs = {}
    /\ handed = EmptyBag
    /\ pc = [t \in Threads |-> "idle"]
    /\ loc = [t \in Threads |-> NoLoc]
    /\ ret = NoRet
    /\ ref = [g \in Groups |-> {}]
    /\ published = {}
    /\ ncalls = 0
    /\ nallocs = 0
    /\ issued = <<>>

\* ------------------------------------------------------------ calls
\* A thread may start a call. Under serialised allocation (P.serial) group
\* allocation runs as at startup: alone, with no other call in flight. Callers
\* that use groups only once they have one (P.allocated) wait for the first
\* try_alloc_kstroage_group to return.
AllocPcs == {"a_store", "a_init", "a_alloc", "a_publish"}
Quiet(t) == pc[t] \in {"idle", "oops"}

CanStart(t, P) ==
    /\ t \in P.threads
    /\ pc[t] = "idle"
    /\ P.serial => \A u \in Threads : pc[u] \notin AllocPcs
    /\ P.allocated => issued # <<>>

\* The arguments of a call that starts. Where the inputs ask for it (P.track)
\* the call also notes what it found: the group table, the heap of snapshots
\* and what the reclaimer has been given (pre).
Start(P, t, op, gid, did, data, offset, len, user) ==
    [NoLoc EXCEPT !.op = op, !.gid = gid, !.did = did, !.data = data,
                  !.offset = offset, !.len = len, !.user = user,
                  !.pre = IF P.track
                          THEN <<groups, snapshots, handed, rcu_cbs>>
                          ELSE <<>>]

\* ------------------------------------------------------------ write_kstorage
\* ks_make_item: -EINVAL, -ENOMEM, -EFAULT or the new item's contents.
\* alloc_ok: kvmalloc succeeded; copy_ok: copy_from_user copied everything.
ks_make_item(gid, did, data, offset, len, from_user, alloc_ok, copy_ok) ==
    IF len < 0 THEN [err |-> EINVAL]
    ELSE IF ~alloc_ok THEN [err |-> ENOMEM]
    ELSE IF len > 0 /\ from_user /\ ~copy_ok THEN [err |-> EFAULT]
    ELSE [err |-> 0,
          item |-> [gid |-> gid, did |-> did,
                    data |-> SubSeq(data, offset + 1, offset + len)]]

\* Lines 159-164: the gid check and ks_make_item.
write_kstorage_call(t, P) ==
    /\ CanStart(t, P)
    /\ \E gid \in P.gids, did \in P.dids, data \in P.datas, len \in P.wlens,
          user \in P.users, alloc_ok \in P.allocs, copy_ok \in P.copies :
        /\ len <= Len(data)
        /\ LET a == Start(P, t, "write", gid, did, data, 0, len, user)
               m == ks_make_item(gid, did, data, 0, len, user, alloc_ok, copy_ok)
           IN  IF gid < 0 \/ gid >= KSTRORAGE_MAX_GROUP_NUM
               THEN /\ ReturnNow(t, "write", gid, did, data, 0, len, 0 - ENOENT)
                    /\ UNCHANGED kstorages
               ELSE IF m.err # 0
               THEN /\ ReturnNow(t, "write", gid, did, data, 0, len, 0 - m.err)
                    /\ UNCHANGED kstorages
               ELSE /\ kstorages' = Append(kstorages, m.item)
                    /\ loc' = [loc EXCEPT ![t] =
                                 [a EXCEPT !.new_item = Len(kstorages) + 1]]
                    /\ pc' = [pc EXCEPT ![t] = "w_lock"]
                    /\ UNCHANGED ret
    /\ ncalls < P.maxcalls
    /\ ncalls' = ncalls + 1
    /\ UNCHANGED <<nallocs, issued>>
    /\ UNCHANGED <<used_max_group, groups, snapshots, freed, rcu_cbs, handed, ref, published>>

\* Line 166: spin_lock(&groups[gid].lock).
write_kstorage_lock(t) ==
    /\ pc[t] = "w_lock"
    /\ groups[loc[t].gid].lock = 0
    /\ groups' = [groups EXCEPT ![loc[t].gid].lock = 1]
    /\ pc' = [pc EXCEPT ![t] = "w_build"]
    /\ UNCHANGED <<used_max_group, snapshots, kstorages, freed, rcu_cbs, handed,
                   loc, ret, ref, published, ncalls, nallocs, issued>>

\* Lines 169-200: load the current snapshot, search it, clone and adjust.
\* With no snapshot (old == NULL) idx is -1 and the insert branch reads
\* old->size through the null pointer: the kernel oopses with the lock held.
write_kstorage_build(t, P) ==
    /\ pc[t] = "w_build"
    /\ LET gid == loc[t].gid
           old == groups[gid].snap
           idx == IF old # NULL THEN ks_bsearch(old, loc[t].did) ELSE 0 - 1
       IN  IF old = NULL
           THEN /\ pc' = [pc EXCEPT ![t] = "oops"]
                /\ UNCHANGED <<groups, snapshots, freed, loc, ret>>
           ELSE \E clone_ok \in P.allocs :
                IF ~clone_ok
                THEN /\ groups' = spin_unlock(groups, gid)
                     /\ freed' = kvfree(freed, "k", loc[t].new_item)
                     /\ Return(t, 0 - ENOMEM, <<>>)
                     /\ UNCHANGED snapshots
                ELSE /\ snapshots' = Append(snapshots,
                            IF idx >= 0
                            THEN WriteReplace(old, idx, loc[t].new_item)
                            ELSE WriteInsert(old, (0 - idx) - 1, loc[t].new_item))
                     /\ loc' = [loc EXCEPT ![t].old = old, ![t].idx = idx,
                                    ![t].ns = Len(snapshots) + 1,
                                    ![t].old_item =
                                        IF idx >= 0 THEN ItemAt(old, idx) ELSE NULL]
                     /\ pc' = [pc EXCEPT ![t] = "w_publish"]
                     /\ UNCHANGED <<groups, freed, ret>>
    /\ UNCHANGED <<used_max_group, kstorages, rcu_cbs, handed, ref, published, ncalls, nallocs, issued>>

\* Line 202: rcu_assign_pointer(groups[gid].snap, ns).
write_kstorage_publish(t) ==
    /\ pc[t] = "w_publish"
    /\ groups' = [groups EXCEPT ![loc[t].gid].snap = loc[t].ns]
    /\ published' = published \cup {loc[t].ns}
    /\ ref' = [ref EXCEPT ![loc[t].gid] =
                  RefPut(@, loc[t].did, kstorages[loc[t].new_item].data)]
    /\ pc' = [pc EXCEPT ![t] = "w_unlock"]
    /\ UNCHANGED <<used_max_group, snapshots, kstorages, freed, rcu_cbs, handed,
                   loc, ret, ncalls, nallocs, issued>>

\* Line 203: spin_unlock(&groups[gid].lock).
write_kstorage_unlock(t) ==
    /\ pc[t] = "w_unlock"
    /\ groups' = spin_unlock(groups, loc[t].gid)
    /\ pc' = [pc EXCEPT ![t] = "w_retire"]
    /\ UNCHANGED <<used_max_group, snapshots, kstorages, freed, rcu_cbs, handed,
                   loc, ret, ref, published, ncalls, nallocs, issued>>

\* Mutant of Retired: only the old snapshot is queued.
Retired_snapshot_only(old, item) == IF old # NULL THEN {<<"s", old>>} ELSE {}

\* The callbacks one writer queues at the end: the old snapshot, then the old
\* item if there is one.
Retired(old, item) ==
    (IF old # NULL THEN {<<"s", old>>} ELSE {}) \cup
    (IF item # NULL THEN {<<"k", item>>} ELSE {})

\* Lines 206-209: call_rcu for the old snapshot and the replaced item.
write_kstorage_retire(t) ==
    /\ pc[t] = "w_retire"
    /\ LET r == Retired(loc[t].old, loc[t].old_item)
       IN  /\ rcu_cbs' = rcu_cbs \cup { CallRcu(o[1], o[2]) : o \in r }
           /\ handed' = handed (+) SetToBag(r)
    /\ Return(t, 0, <<>>)
    /\ UNCHANGED <<used_max_group, groups, snapshots, kstorages, freed, ref, published, ncalls, nallocs, issued>>

\* ------------------------------------------------------------ remove_kstorage
\* Lines 309-311: the gid check.
remove_kstorage_call(t, P) ==
    /\ CanStart(t, P)
    /\ \E gid \in P.gids, did \in P.dids :
        IF gid < 0 \/ gid >= KSTRORAGE_MAX_GROUP_NUM
        THEN ReturnNow(t, "remove", gid, did, <<>>, 0, 0, 0 - ENOENT)
        ELSE /\ loc' = [loc EXCEPT ![t] =
                          Start(P, t, "remove", gid, did, <<>>, 0, 0, FALSE)]
             /\ pc' = [pc EXCEPT ![t] = "m_lock"]
             /\ UNCHANGED ret
    /\ ncalls < P.maxcalls
    /\ ncalls' = ncalls + 1
    /\ UNCHANGED <<nallocs, issued>>
    /\ UNCHANGED <<used_max_group, groups, snapshots, kstorages, freed, rcu_cbs,
                   handed, ref, published>>

\* Line 313: spin_lock(&groups[gid].lock).
remove_kstorage_lock(t) ==
    /\ pc[t] = "m_lock"
    /\ groups[loc[t].gid].lock = 0
    /\ groups' = [groups EXCEPT ![loc[t].gid].lock = 1]
    /\ pc' = [pc EXCEPT ![t] = "m_build"]
    /\ UNCHANGED <<used_max_group, snapshots, kstorages, freed, rcu_cbs, handed,
                   loc, ret, ref, published, ncalls, nallocs, issued>>

\* Lines 315-335: load, search, clone with one slot less, copy both segments.
remove_kstorage_build(t, P) ==
    /\ pc[t] = "m_build"
    /\ LET gid == loc[t].gid
           old == groups[gid].snap
           idx == IF old # NULL THEN ks_bsearch(old, loc[t].did) ELSE 0 - 1
       IN  IF idx < 0
           THEN /\ groups' = spin_unlock(groups, gid)
                /\ Return(t, 0 - ENOENT, <<>>)
                /\ UNCHANGED snapshots
           ELSE \E clone_ok \in P.allocs :
                IF ~clone_ok
                THEN /\ groups' = spin_unlock(groups, gid)
                     /\ Return(t, 0 - ENOMEM, <<>>)
                     /\ UNCHANGED snapshots
                ELSE /\ snapshots' = Append(snapshots, RemoveAt(old, idx))
                     /\ loc' = [loc EXCEPT ![t].old = old, ![t].idx = idx,
                                    ![t].ns = Len(snapshots) + 1,
                                    ![t].old_item = ItemAt(old, idx)]
                     /\ pc' = [pc EXCEPT ![t] = "m_publish"]
                     /\ UNCHANGED <<groups, ret>>
    /\ UNCHANGED <<used_max_group, kstorages, freed, rcu_cbs, handed, ref, published, ncalls, nallocs, issued>>

\* Line 337: rcu_assign_pointer(groups[gid].snap, ns).
remove_kstorage_publish(t) ==
    /\ pc[t] = "m_publish"
    /\ groups' = [groups EXCEPT ![loc[t].gid].snap = loc[t].ns]
    /\ published' = published \cup {loc[t].ns}
    /\ ref' = [ref EXCEPT ![loc[t].gid] = RefDel(@, loc[t].did)]
    /\ pc' = [pc EXCEPT ![t] = "m_unlock"]
    /\ UNCHANGED <<used_max_group, snapshots, kstorages, freed, rcu_cbs, handed,
                   loc, ret, ncalls, nallocs, issued>>

\* Line 338: spin_unlock(&groups[gid].lock).
remove_kstorage_unlock(t) ==
    /\ pc[t] = "m_unlock"
    /\ groups' = spin_unlock(groups, loc[t].gid)
    /\ pc' = [pc EXCEPT ![t] = "m_retire"]
    /\ UNCHANGED <<used_max_group, snapshots, kstorages, freed, rcu_cbs, handed,
                   loc, ret, ref, published, ncalls, nallocs, issued>>

\* Lines 340-343: call_rcu for the old snapshot and the victim.
remove_kstorage_retire(t) ==
    /\ pc[t] = "m_retire"
    /\ LET r == Retired(loc[t].old, loc[t].old_item)
       IN  /\ rcu_cbs' = rcu_cbs \cup { CallRcu(o[1], o[2]) : o \in r }
           /\ handed' = handed (+) SetToBag(r)
    /\ Return(t, 0, <<>>)
    /\ UNCHANGED <<used_max_group, groups, snapshots, kstorages, freed, ref, published, ncalls, nallocs, issued>>

\* ------------------------------------------------------------ reclaimer
\* ks_free_snapshot_rcu / ks_free_kstorage_rcu. RCU invokes a callback once
\* every reader that was inside a read-side critical section at call_rcu has
\* left it; when it runs its callbacks it runs the whole batch that is ready.
\* How long after the grace period that happens is not determined.
rcu_callback ==
    /\ LET ready == { c \in rcu_cbs : c.wait = {} }
       IN  /\ ready # {}
           /\ rcu_cbs' = rcu_cbs \ ready
           /\ freed' = freed \cup { <<c.kind, c.addr>> : c \in ready }
    /\ UNCHANGED <<used_max_group, groups, snapshots, kstorages, handed, pc, loc,
                   ret, ref, published, ncalls, nallocs, issued>>

\* ------------------------------------------------------------ readers
\* Reading through a pointer to released memory is undefined: the read may
\* still find the old bytes, or the kernel may fault.
Deref(objs) == IF objs \cap freed # {} THEN {"stale", "oops"} ELSE {"ok"}

\* The objects a lookup of did in snapshot s reads: the snapshot, the items
\* the search compares, the item found.
Reached(s) == {<<"s", s>>} \cup { <<"k", snapshots[s][i]>> : i \in 1..Len(snapshots[s]) }

\* Lines 247-255: gid check, rcu_read_lock, load the snapshot pointer.
read_kstorage_call(t, P) ==
    /\ CanStart(t, P)
    /\ \E gid \in P.gids, did \in P.dids, offset \in P.offs, len \in P.rlens,
          user \in P.users :
        IF gid < 0 \/ gid >= KSTRORAGE_MAX_GROUP_NUM
        THEN ReturnNow(t, "read", gid, did, <<>>, offset, len, 0 - ENOENT)
        ELSE IF groups[gid].snap = NULL
        THEN ReturnNow(t, "read", gid, did, <<>>, offset, len, 0 - ENOENT)
        ELSE /\ loc' = [loc EXCEPT ![t] =
                          [Start(P, t, "read", gid, did, <<>>, offset, len, user)
                             EXCEPT !.s = groups[gid].snap, !.seen = ref[gid]]]
             /\ pc' = [pc EXCEPT ![t] = "r_read"]
             /\ UNCHANGED ret
    /\ ncalls < P.maxcalls
    /\ ncalls' = ncalls + 1
    /\ UNCHANGED <<nallocs, issued>>
    /\ UNCHANGED <<used_max_group, groups, snapshots, kstorages, freed, rcu_cbs,
                   handed, ref, published>>

\* read_kstorage's result once the snapshot is loaded: [rc, out], out the bytes
\* that reached the destination. copy_ok: copy_to_user copied everything.
read_kstorage_result(s, did, offset, len, user, copy_ok) ==
    LET idx == ks_bsearch(s, did)
    IN  IF idx < 0 THEN [rc |-> 0 - ENOENT, out |-> <<>>]
        ELSE LET ks   == kstorages[ItemAt(s, idx)]
                 dlen == Len(ks.data)
                 n    == Min(dlen - offset, len)
             IN  IF offset < 0 \/ offset >= dlen
                 THEN [rc |-> 0 - EINVAL, out |-> <<>>]
                 ELSE IF user /\ n > 0 /\ ~copy_ok
                 THEN [rc |-> 0 - EFAULT, out |-> <<>>]
                 ELSE [rc |-> 0, out |-> SubSeq(ks.data, offset + 1, offset + n)]

\* Lines 257-277: search, bounds check, copy out, rcu_read_unlock.
read_kstorage_copy(t, P) ==
    /\ pc[t] = "r_read"
    /\ \E copy_ok \in P.copies, how \in Deref(Reached(loc[t].s)) :
        IF how = "oops"
        THEN /\ pc' = [pc EXCEPT ![t] = "oops"]
             /\ UNCHANGED <<loc, ret, rcu_cbs>>
        ELSE LET r == read_kstorage_result(loc[t].s, loc[t].did, loc[t].offset,
                                           loc[t].len, loc[t].user, copy_ok)
             IN  /\ Return(t, r.rc, r.out)
                 /\ rcu_cbs' = RcuUnlock(rcu_cbs, t)
    /\ UNCHANGED <<used_max_group, groups, snapshots, kstorages, freed, handed,
                   ref, published, ncalls, nallocs, issued>>

\* Lines 146-152: gid check, rcu_read_lock, load the snapshot pointer.
kstorage_group_size_call(t, P) ==
    /\ CanStart(t, P)
    /\ \E gid \in P.gids :
        IF gid < 0 \/ gid >= KSTRORAGE_MAX_GROUP_NUM
        THEN ReturnNow(t, "size", gid, 0, <<>>, 0, 0, 0 - ENOENT)
        ELSE /\ loc' = [loc EXCEPT ![t] =
                          [Start(P, t, "size", gid, 0, <<>>, 0, 0, FALSE)
                             EXCEPT !.s = groups[gid].snap, !.seen = ref[gid]]]
             /\ pc' = [pc EXCEPT ![t] = "g_size"]
             /\ UNCHANGED ret
    /\ ncalls < P.maxcalls
    /\ ncalls' = ncalls + 1
    /\ UNCHANGED <<nallocs, issued>>
    /\ UNCHANGED <<used_max_group, groups, snapshots, kstorages, freed, rcu_cbs,
                   handed, ref, published>>

\* Lines 153-155: sz = s ? s->size : 0, rcu_read_unlock.
kstorage_group_size_read(t) ==
    /\ pc[t] = "g_size"
    /\ \E how \in Deref(IF loc[t].s = NULL THEN {} ELSE {<<"s", loc[t].s>>}) :
        IF how = "oops"
        THEN /\ pc' = [pc EXCEPT ![t] = "oops"]
             /\ UNCHANGED <<loc, ret, rcu_cbs>>
        ELSE /\ Return(t, IF loc[t].s # NULL THEN SizeOf(loc[t].s) ELSE 0, <<>>)
             /\ rcu_cbs' = RcuUnlock(rcu_cbs, t)
    /\ UNCHANGED <<used_max_group, groups, snapshots, kstorages, freed, handed,
                   ref, published, ncalls, nallocs, issued>>

\* Lines 280-287: gid check, rcu_read_lock, load the snapshot pointer.
list_kstorage_ids_call(t, P) ==
    /\ CanStart(t, P)
    /\ \E gid \in P.gids, idslen \in P.caps, user \in P.users :
        IF gid < 0 \/ gid >= KSTRORAGE_MAX_GROUP_NUM
        THEN ReturnNow(t, "list", gid, 0, <<>>, 0, idslen, 0 - ENOENT)
        ELSE /\ loc' = [loc EXCEPT ![t] =
                          [Start(P, t, "list", gid, 0, <<>>, 0, idslen, user)
                             EXCEPT !.s = groups[gid].snap, !.seen = ref[gid]]]
             /\ pc' = [pc EXCEPT ![t] = "l_copy"]
             /\ UNCHANGED ret
    /\ ncalls < P.maxcalls
    /\ ncalls' = ncalls + 1
    /\ UNCHANGED <<nallocs, issued>>
    /\ UNCHANGED <<used_max_group, groups, snapshots, kstorages, freed, rcu_cbs,
                   handed, ref, published>>

\* Mutant of list_kstorage_ids_result: a failed copy ends the list and the
\* ids copied so far are counted.
list_kstorage_ids_degraded(s, idslen, user, bad) ==
    IF s = NULL THEN [rc |-> 0, out |-> <<>>]
    ELSE LET cnt == Min(idslen, SizeOf(s))
             n   == IF user /\ bad >= 0 /\ bad < cnt THEN bad ELSE cnt
         IN  [rc |-> n, out |-> [i \in 1..n |-> DidAt(s, i - 1)]]

\* list_kstorage_ids's result: [rc, out]. bad is the index of the first
\* element whose copy_to_user fails (-1: none fails).
list_kstorage_ids_result(s, idslen, user, bad) ==
    IF s = NULL THEN [rc |-> 0, out |-> <<>>]
    ELSE LET cnt == Min(idslen, SizeOf(s))
         IN  IF user /\ bad >= 0 /\ bad < cnt
             THEN [rc |-> 0 - EFAULT, out |-> [i \in 1..bad |-> DidAt(s, i - 1)]]
             ELSE [rc |-> cnt, out |-> [i \in 1..cnt |-> DidAt(s, i - 1)]]

\* Lines 287-305: copy the first cnt ids, rcu_read_unlock.
list_kstorage_ids_copy(t, P) ==
    /\ pc[t] = "l_copy"
    /\ \E bad \in P.bads,
          how \in Deref(IF loc[t].s = NULL THEN {} ELSE Reached(loc[t].s)) :
        IF how = "oops"
        THEN /\ pc' = [pc EXCEPT ![t] = "oops"]
             /\ UNCHANGED <<loc, ret, rcu_cbs>>
        ELSE LET r == list_kstorage_ids_result(loc[t].s, loc[t].len, loc[t].user, bad)
             IN  /\ Return(t, r.rc, r.out)
                 /\ rcu_cbs' = RcuUnlock(rcu_cbs, t)
    /\ UNCHANGED <<used_max_group, groups, snapshots, kstorages, freed, handed,
                   ref, published, ncalls, nallocs, issued>>

\* Lines 229-235: gid check, rcu_read_lock, load the snapshot pointer.
on_each_kstorage_elem_call(t, P) ==
    /\ CanStart(t, P)
    /\ \E gid \in P.gids :
        IF gid < 0 \/ gid >= KSTRORAGE_MAX_GROUP_NUM
        THEN ReturnNow(t, "each", gid, 0, <<>>, 0, 0, 0 - ENOENT)
        ELSE /\ loc' = [loc EXCEPT ![t] =
                          [Start(P, t, "each", gid, 0, <<>>, 0, 0, FALSE)
                             EXCEPT !.s = groups[gid].snap, !.seen = ref[gid]]]
             /\ pc' = [pc EXCEPT ![t] = "e_loop"]
             /\ UNCHANGED ret
    /\ ncalls < P.maxcalls
    /\ ncalls' = ncalls + 1
    /\ UNCHANGED <<nallocs, issued>>
    /\ UNCHANGED <<used_max_group, groups, snapshots, kstorages, freed, rcu_cbs,
                   handed, ref, published>>

\* Mutant of on_each_kstorage_elem_break: the scan goes on whatever the
\* callback answers.
on_each_kstorage_elem_never(rc) == FALSE

\* Line 239: if (rc) break.
on_each_kstorage_elem_break(rc) == rc # 0

\* Lines 236-243: one turn of the loop (the callback sees items[i] and answers
\* rc), or the end of the scan: rcu_read_unlock, return rc. loc.data collects
\* the <<did, data, rc>> of the callback's calls.
on_each_kstorage_elem_step(t, P) ==
    /\ pc[t] = "e_loop"
    /\ \E rc \in P.cbrcs,
          how \in Deref(IF loc[t].s = NULL THEN {} ELSE Reached(loc[t].s)) :
        IF how = "oops"
        THEN /\ pc' = [pc EXCEPT ![t] = "oops"]
             /\ UNCHANGED <<loc, ret, rcu_cbs>>
        ELSE IF loc[t].s # NULL /\ loc[t].i < SizeOf(loc[t].s)
        THEN LET ks   == kstorages[ItemAt(loc[t].s, loc[t].i)]
                 seq  == Append(loc[t].data, <<ks.did, ks.data, rc>>)
             IN  IF on_each_kstorage_elem_break(rc)
                 THEN /\ Return(t, rc, seq)
                      /\ rcu_cbs' = RcuUnlock(rcu_cbs, t)
                 ELSE /\ loc' = [loc EXCEPT ![t].i = @ + 1, ![t].data = seq]
                      /\ UNCHANGED <<pc, ret, rcu_cbs>>
        ELSE /\ Return(t, IF loc[t].data = <<>> THEN 0
                          ELSE loc[t].data[Len(loc[t].data)][3], loc[t].data)
             /\ rcu_cbs' = RcuUnlock(rcu_cbs, t)
    /\ UNCHANGED <<used_max_group, groups, snapshots, kstorages, freed, handed,
                   ref, published, ncalls, nallocs, issued>>

\* ------------------------------------------------------------ get_kstorage
\* The returned pointer is only safe inside the caller's RCU read section
\* (line 222): the caller takes rcu_read_lock, calls get_kstorage, uses the
\* entry, and then leaves its section.
\* Lines 213-219: the caller's rcu_read_lock, then the gid check,
\* get_kstorage's own rcu_read_lock and the load of the snapshot pointer.
get_kstorage_call(t, P) ==
    /\ CanStart(t, P)
    /\ \E gid \in P.gids, did \in P.dids :
        /\ loc' = [loc EXCEPT ![t] =
                     [Start(P, t, "get", gid, did, <<>>, 0, 0, FALSE)
                        EXCEPT !.s = IF gid < 0 \/ gid >= KSTRORAGE_MAX_GROUP_NUM
                                     THEN NULL ELSE groups[gid].snap,
                               !.seen = IF gid < 0 \/ gid >= KSTRORAGE_MAX_GROUP_NUM
                                        THEN {} ELSE ref[gid]]]
        /\ pc' = [pc EXCEPT ![t] = "c_get"]
    /\ ncalls < P.maxcalls
    /\ ncalls' = ncalls + 1
    /\ UNCHANGED <<used_max_group, groups, snapshots, kstorages, freed, rcu_cbs,
                   handed, ret, ref, published, nallocs, issued>>

\* Lines 219-225: NULL without a snapshot; else the search, the pointer to the
\* entry found (or NULL), get_kstorage's rcu_read_unlock, return.
get_kstorage_search(t) ==
    /\ pc[t] = "c_get"
    /\ \E how \in Deref(IF loc[t].s = NULL THEN {} ELSE Reached(loc[t].s)) :
        IF how = "oops"
        THEN /\ pc' = [pc EXCEPT ![t] = "oops"]
             /\ UNCHANGED loc
        ELSE LET idx == IF loc[t].s = NULL THEN 0 - 1
                        ELSE ks_bsearch(loc[t].s, loc[t].did)
             IN  /\ loc' = [loc EXCEPT ![t].idx = idx,
                                ![t].ks = IF idx >= 0 THEN ItemAt(loc[t].s, idx)
                                          ELSE NULL]
                 /\ pc' = [pc EXCEPT ![t] = "c_use"]
    /\ rcu_cbs' = rcu_read_unlock_nested(rcu_cbs, t)
    /\ UNCHANGED <<used_max_group, groups, snapshots, kstorages, freed, handed,
                   ret, ref, published, ncalls, nallocs, issued>>

\* The caller reads the entry through the pointer it was given (or sees
\* NULL: rc -ENOENT) and leaves its read section.
get_kstorage_use(t) ==
    /\ pc[t] = "c_use"
    /\ \E how \in Deref(IF loc[t].ks = NULL THEN {} ELSE {<<"k", loc[t].ks>>}) :
        IF how = "oops"
        THEN /\ pc' = [pc EXCEPT ![t] = "oops"]
             /\ UNCHANGED <<loc, ret, rcu_cbs>>
        ELSE /\ IF loc[t].ks = NULL
                THEN Return(t, 0 - ENOENT, <<>>)
                ELSE Return(t, 0, kstorages[loc[t].ks].data)
             /\ rcu_cbs' = RcuUnlock(rcu_cbs, t)
    /\ UNCHANGED <<used_max_group, groups, snapshots, kstorages, freed, handed,
                   ref, published, ncalls, nallocs, issued>>

\* ------------------------------------------------------------ try_alloc_kstroage_group
\* used_max_group is an int: 32 bits wide. The kernel is built with
\* -fno-strict-overflow, so ++ / -- wrap around.
INT_MAX == 2147483647
INT_MIN == (0 - INT_MAX) - 1
Inc32(x) == IF x = INT_MAX THEN INT_MIN ELSE x + 1
Dec32(x) == IF x = INT_MIN THEN INT_MAX ELSE x - 1

\* Line 127, first half of ++used_max_group: load the counter.
try_alloc_kstroage_group_call(t, P) ==
    /\ CanStart(t, P)
    /\ P.serial => \A u \in Threads \ {t} : Quiet(u)
    /\ loc' = [loc EXCEPT ![t] =
                 [Start(P, t, "alloc", 0, 0, <<>>, 0, 0, FALSE)
                    EXCEPT !.id = Inc32(used_max_group)]]
    /\ pc' = [pc EXCEPT ![t] = "a_store"]
    /\ nallocs < P.maxallocs
    /\ nallocs' = nallocs + 1
    /\ UNCHANGED <<used_max_group, groups, snapshots, kstorages, freed, rcu_cbs,
                   handed, ret, ref, published, ncalls, issued>>

\* Lines 127-129, second half of ++used_max_group: store it; check the range.
try_alloc_kstroage_group_store(t) ==
    /\ pc[t] = "a_store"
    /\ used_max_group' = loc[t].id
    /\ IF loc[t].id < 0 \/ loc[t].id >= KSTRORAGE_MAX_GROUP_NUM
       THEN Return(t, 0 - 1, <<>>)
       ELSE /\ pc' = [pc EXCEPT ![t] = "a_init"]
            /\ UNCHANGED <<loc, ret>>
    /\ UNCHANGED <<groups, snapshots, kstorages, freed, rcu_cbs, handed, ref, published, ncalls, nallocs, issued>>

\* Line 131: spin_lock_init(&groups[id].lock).
try_alloc_kstroage_group_init(t) ==
    /\ pc[t] = "a_init"
    /\ groups' = [groups EXCEPT ![loc[t].id].lock = 0]
    /\ pc' = [pc EXCEPT ![t] = "a_alloc"]
    /\ UNCHANGED <<used_max_group, snapshots, kstorages, freed, rcu_cbs, handed,
                   loc, ret, ref, published, ncalls, nallocs, issued>>

\* Lines 134-140: kzalloc the empty snapshot; on failure take the id back.
try_alloc_kstroage_group_alloc(t, P) ==
    /\ pc[t] = "a_alloc"
    /\ \E alloc_ok \in P.allocs :
        IF alloc_ok
        THEN /\ snapshots' = Append(snapshots, <<>>)
             /\ loc' = [loc EXCEPT ![t].ns = Len(snapshots) + 1]
             /\ pc' = [pc EXCEPT ![t] = "a_publish"]
             /\ UNCHANGED <<used_max_group, ret>>
        ELSE /\ used_max_group' = Dec32(used_max_group)
             /\ Return(t, 0 - ENOMEM, <<>>)
             /\ UNCHANGED snapshots
    /\ UNCHANGED <<groups, kstorages, freed, rcu_cbs, handed, ref, published, ncalls, nallocs, issued>>

\* Lines 141-142: rcu_assign_pointer(groups[id].snap, empty); return id.
try_alloc_kstroage_group_publish(t) ==
    /\ pc[t] = "a_publish"
    /\ groups' = [groups EXCEPT ![loc[t].id].snap = loc[t].ns]
    /\ published' = published \cup {loc[t].ns}
    /\ Return(t, loc[t].id, <<>>)
    /\ issued' = Append(issued, loc[t].id)
    /\ UNCHANGED <<used_max_group, snapshots, kstorages, freed, rcu_cbs, handed,
                   ref, ncalls, nallocs>>

\* Lines 127-129, a run of consecutive calls that all fail the range check,
\* taken as one step. Such a call only stores the incremented counter and
\* returns -1, so the run leaves the counter at its last value: any value up
\* to INT_MAX, or past the wrap-around any negative value up to -1, as long
\* as no id on the way is in [0, KSTRORAGE_MAX_GROUP_NUM).
try_alloc_kstroage_group_failing_run(t, P) ==
    /\ CanStart(t, P)
    /\ P.serial => \A u \in Threads \ {t} : Quiet(u)
    /\ \E last \in P.runs :
        /\ \/ used_max_group >= KSTRORAGE_MAX_GROUP_NUM - 1 /\ last > used_max_group
           \/ used_max_group >= KSTRORAGE_MAX_GROUP_NUM - 1 /\ last < 0
           \/ used_max_group < 0 - 1 /\ last > used_max_group /\ last < 0
        /\ used_max_group' = last
    /\ ReturnNow(t, "alloc", 0, 0, <<>>, 0, 0, 0 - 1)
    /\ UNCHANGED <<groups, snapshots, kstorages, freed, rcu_cbs, handed, ref,
                   published, ncalls, nallocs, issued>>

\* ------------------------------------------------------------ specifications
Step(t, P) ==
    \/ try_alloc_kstroage_group_call(t, P)
    \/ try_alloc_kstroage_group_store(t)
    \/ try_alloc_kstroage_group_init(t)
    \/ try_alloc_kstroage_group_alloc(t, P)
    \/ try_alloc_kstroage_group_publish(t)
    \/ write_kstorage_call(t, P)
    \/ write_kstorage_lock(t)
    \/ write_kstorage_build(t, P)
    \/ write_kstorage_publish(t)
    \/ write_kstorage_unlock(t)
    \/ write_kstorage_retire(t)
    \/ remove_kstorage_call(t, P)
    \/ remove_kstorage_lock(t)
    \/ remove_kstorage_build(t, P)
    \/ remove_kstorage_publish(t)
    \/ remove_kstorage_unlock(t)
    \/ remove_kstorage_retire(t)
    \/ read_kstorage_call(t, P)
    \/ read_kstorage_copy(t, P)
    \/ kstorage_group_size_call(t, P)
    \/ kstorage_group_size_read(t)
    \/ list_kstorage_ids_call(t, P)
    \/ list_kstorage_ids_copy(t, P)
    \/ on_each_kstorage_elem_call(t, P)
    \/ on_each_kstorage_elem_step(t, P)

\* Inputs of the concurrent specification: the threads work on group 0, and
\* group allocation is serialised as at startup.
PConc == [threads |-> Threads, serial |-> TRUE,
          maxcalls |-> ConcCalls, maxallocs |-> ConcAllocs,
          gids |-> {0}, dids |-> {1, 2}, datas |-> {<<7>>, <<8>>},
          wlens |-> {1}, users |-> {FALSE}, allocs |-> {TRUE}, copies |-> {TRUE},
          offs |-> {0}, rlens |-> {1}, caps |-> {2}, bads |-> {0 - 1}, cbrcs |-> {0},
          track |-> FALSE, runs |-> {}, allocated |-> FALSE]

Next == (\E t \in Threads : Step(t, PConc)) \/ rcu_callback

Spec == Init /\ [][Next]_vars

\* Inputs of the racing specification: as PConc, but try_alloc_kstroage_group
\* may run at any time, beside writers already at work on the group.
PRace == [PConc EXCEPT !.serial = FALSE]

StepRace(t) ==
    \/ try_alloc_kstroage_group_call(t, PRace)
    \/ try_alloc_kstroage_group_store(t)
    \/ try_alloc_kstroage_group_init(t)
    \/ try_alloc_kstroage_group_alloc(t, PRace)
    \/ try_alloc_kstroage_group_publish(t)
    \/ write_kstorage_call(t, PRace)
    \/ write_kstorage_lock(t)
    \/ write_kstorage_build(t, PRace)
    \/ write_kstorage_publish(t)
    \/ write_kstorage_unlock(t)
    \/ write_kstorage_retire(t)
    \/ remove_kstorage_call(t, PRace)
    \/ remove_kstorage_lock(t)
    \/ remove_kstorage_build(t, PRace)
    \/ remove_kstorage_publish(t)
    \/ remove_kstorage_unlock(t)
    \/ remove_kstorage_retire(t)

NextRace == (\E t \in Threads : StepRace(t)) \/ rcu_callback

SpecRace == Init /\ [][NextRace]_vars

\* Inputs of the update specification: one thread inserts, replaces and
\* removes three record ids in group 0.
PUpd == [PConc EXCEPT !.threads = {1}, !.maxcalls = UpdCalls, !.maxallocs = 1,
                      !.dids = {1, 2, 3}, !.datas = {<<7>>}]

StepUpd(t) ==
    \/ try_alloc_kstroage_group_call(t, PUpd)
    \/ try_alloc_kstroage_group_store(t)
    \/ try_alloc_kstroage_group_init(t)
    \/ try_alloc_kstroage_group_alloc(t, PUpd)
    \/ try_alloc_kstroage_group_publish(t)
    \/ write_kstorage_call(t, PUpd)
    \/ write_kstorage_lock(t)
    \/ write_kstorage_build(t, PUpd)
    \/ write_kstorage_publish(t)
    \/ write_kstorage_unlock(t)
    \/ write_kstorage_retire(t)
    \/ remove_kstorage_call(t, PUpd)
    \/ remove_kstorage_lock(t)
    \/ remove_kstorage_build(t, PUpd)
    \/ remove_kstorage_publish(t)
    \/ remove_kstorage_unlock(t)
    \/ remove_kstorage_retire(t)

NextUpd == StepUpd(1) \/ rcu_callback

SpecUpd == Init /\ [][NextUpd]_vars

\* Inputs of the read specification: one thread writes entries of length 0
\* and 2 under one record id and reads them at every offset around the entry.
PRead == [PConc EXCEPT !.threads = {1}, !.maxcalls = ReadCalls, !.maxallocs = 1,
                       !.dids = {1}, !.datas = {<<>>, <<7, 8>>}, !.wlens = {0, 2},
                       !.users = {FALSE, TRUE}, !.copies = {TRUE, FALSE},
                       !.offs = (0 - 1)..3, !.rlens = 0..3]

StepRead(t) ==
    \/ try_alloc_kstroage_group_call(t, PRead)
    \/ try_alloc_kstroage_group_store(t)
    \/ try_alloc_kstroage_group_init(t)
    \/ try_alloc_kstroage_group_alloc(t, PRead)
    \/ try_alloc_kstroage_group_publish(t)
    \/ write_kstorage_call(t, PRead)
    \/ write_kstorage_lock(t)
    \/ write_kstorage_build(t, PRead)
    \/ write_kstorage_publish(t)
    \/ write_kstorage_unlock(t)
    \/ write_kstorage_retire(t)
    \/ read_kstorage_call(t, PRead)
    \/ read_kstorage_copy(t, PRead)

NextRead == StepRead(1) \/ rcu_callback

SpecRead == Init /\ [][NextRead]_vars

\* Inputs of the group specification: one thread allocates groups, also past
\* the table's capacity, and calls every operation on group ids in and out of
\* range, allocated or not; allocations may fail.
PGrp == [PConc EXCEPT !.threads = {1}, !.maxcalls = GrpCalls, !.maxallocs = GrpAllocs,
                      !.gids = {0 - 1, 0, 1, KSTRORAGE_MAX_GROUP_NUM},
                      !.dids = {1}, !.datas = {<<7>>}, !.allocs = {TRUE, FALSE},
                      !.runs = {INT_MAX, 0 - 1}]

NextGrp ==
    \/ Step(1, PGrp)
    \/ try_alloc_kstroage_group_failing_run(1, PGrp)
    \/ rcu_callback

SpecGrp == Init /\ [][NextGrp]_vars

\* Inputs of the allocation race specification: two threads call
\* try_alloc_kstroage_group at the same time; kzalloc may fail.
PAlloc == [PConc EXCEPT !.serial = FALSE, !.maxallocs = RaceAllocs,
                        !.allocs = {TRUE, FALSE}]

StepAlloc(t) ==
    \/ try_alloc_kstroage_group_call(t, PAlloc)
    \/ try_alloc_kstroage_group_store(t)
    \/ try_alloc_kstroage_group_init(t)
    \/ try_alloc_kstroage_group_alloc(t, PAlloc)
    \/ try_alloc_kstroage_group_publish(t)

NextAlloc == \E t \in Threads : StepAlloc(t)

SpecAlloc == Init /\ [][NextAlloc]_vars

\* Inputs of the failure specification: one thread writes and removes two
\* record ids while every allocation and every copy from the source may fail
\* and the length may be negative; each call notes the state it started in.
PFail == [PConc EXCEPT !.threads = {1}, !.maxcalls = FailCalls,
                       !.maxallocs = FailAllocs, !.datas = {<<7>>},
                       !.wlens = {0 - 1, 1}, !.users = {FALSE, TRUE},
                       !.allocs = {TRUE, FALSE}, !.copies = {TRUE, FALSE},
                       !.track = TRUE]

StepFail(t) ==
    \/ try_alloc_kstroage_group_call(t, PFail)
    \/ try_alloc_kstroage_group_store(t)
    \/ try_alloc_kstroage_group_init(t)
    \/ try_alloc_kstroage_group_alloc(t, PFail)
    \/ try_alloc_kstroage_group_publish(t)
    \/ write_kstorage_call(t, PFail)
    \/ write_kstorage_lock(t)
    \/ write_kstorage_build(t, PFail)
    \/ write_kstorage_publish(t)
    \/ write_kstorage_unlock(t)
    \/ write_kstorage_retire(t)
    \/ remove_kstorage_call(t, PFail)
    \/ remove_kstorage_lock(t)
    \/ remove_kstorage_build(t, PFail)
    \/ remove_kstorage_publish(t)
    \/ remove_kstorage_unlock(t)
    \/ remove_kstorage_retire(t)
    \/ kstorage_group_size_call(t, PFail)
    \/ kstorage_group_size_read(t)

NextFail == StepFail(1) \/ rcu_callback

SpecFail == Init /\ [][NextFail]_vars

\* Inputs of the scan specification: thread 1 allocates group 0 and inserts
\* and removes three record ids in any order; thread 2 lists the ids (into
\* kernel or user memory, where any copy may fail) and scans the entries
\* with a callback that may stop the scan.
PScanW == [PConc EXCEPT !.threads = {1}, !.maxcalls = ScanCalls,
                        !.dids = {1, 2, 3}, !.datas = {<<7>>}]

PScanR == [PScanW EXCEPT !.threads = {2}, !.users = {FALSE, TRUE},
                         !.bads = {0 - 1, 0, 1}, !.cbrcs = {0, 5}]

StepScan ==
    \/ try_alloc_kstroage_group_call(1, PScanW)
    \/ try_alloc_kstroage_group_store(1)
    \/ try_alloc_kstroage_group_init(1)
    \/ try_alloc_kstroage_group_alloc(1, PScanW)
    \/ try_alloc_kstroage_group_publish(1)
    \/ write_kstorage_call(1, PScanW)
    \/ write_kstorage_lock(1)
    \/ write_kstorage_build(1, PScanW)
    \/ write_kstorage_publish(1)
    \/ write_kstorage_unlock(1)
    \/ write_kstorage_retire(1)
    \/ remove_kstorage_call(1, PScanW)
    \/ remove_kstorage_lock(1)
    \/ remove_kstorage_build(1, PScanW)
    \/ remove_kstorage_publish(1)
    \/ remove_kstorage_unlock(1)
    \/ remove_kstorage_retire(1)
    \/ list_kstorage_ids_call(2, PScanR)
    \/ list_kstorage_ids_copy(2, PScanR)
    \/ on_each_kstorage_elem_call(2, PScanR)
    \/ on_each_kstorage_elem_step(2, PScanR)

NextScan == StepScan \/ rcu_callback

SpecScan == Init /\ [][NextScan]_vars

\* Inputs of the borrowed view specification: thread 1 allocates group 0 and
\* writes, replaces and removes two record ids; thread 2 calls get_kstorage
\* inside a read section of its own and uses the entry it gets.
PGetW == [PConc EXCEPT !.threads = {1}, !.maxcalls = GetCalls]

PGetR == [PGetW EXCEPT !.threads = {2}]

StepGet ==
    \/ try_alloc_kstroage_group_call(1, PGetW)
    \/ try_alloc_kstroage_group_store(1)
    \/ try_alloc_kstroage_group_init(1)
    \/ try_alloc_kstroage_group_alloc(1, PGetW)
    \/ try_alloc_kstroage_group_publish(1)
    \/ write_kstorage_call(1, PGetW)
    \/ write_kstorage_lock(1)
    \/ write_kstorage_build(1, PGetW)
    \/ write_kstorage_publish(1)
    \/ write_kstorage_unlock(1)
    \/ write_kstorage_retire(1)
    \/ remove_kstorage_call(1, PGetW)
    \/ remove_kstorage_lock(1)
    \/ remove_kstorage_build(1, PGetW)
    \/ remove_kstorage_publish(1)
    \/ remove_kstorage_unlock(1)
    \/ remove_kstorage_retire(1)
    \/ get_kstorage_call(2, PGetR)
    \/ get_kstorage_search(2)
    \/ get_kstorage_use(2)

NextGet == StepGet \/ rcu_callback

SpecGet == Init /\ [][NextGet]_vars

\* Inputs of the progress specification: group 0 is allocated first, then two
\* threads write, remove, read and size one record id; snapshot clones and
\* item allocations may fail.
PLiveA == [PConc EXCEPT !.maxcalls = LiveCalls, !.dids = {1}, !.datas = {<<7>>}]

PLive == [PLiveA EXCEPT !.allocs = {TRUE, FALSE}, !.allocated = TRUE]

AllocLive(t) ==
    \/ try_alloc_kstroage_group_call(t, PLiveA)
    \/ try_alloc_kstroage_group_store(t)
    \/ try_alloc_kstroage_group_init(t)
    \/ try_alloc_kstroage_group_alloc(t, PLiveA)
    \/ try_alloc_kstroage_group_publish(t)

WriterLive(t) ==
    \/ write_kstorage_call(t, PLive)
    \/ write_kstorage_build(t, PLive)
    \/ write_kstorage_publish(t)
    \/ write_kstorage_unlock(t)
    \/ write_kstorage_retire(t)
    \/ remove_kstorage_call(t, PLive)
    \/ remove_kstorage_build(t, PLive)
    \/ remove_kstorage_publish(t)
    \/ remove_kstorage_unlock(t)
    \/ remove_kstorage_retire(t)

ReaderLive(t) ==
    \/ read_kstorage_call(t, PLive)
    \/ read_kstorage_copy(t, PLive)
    \/ kstorage_group_size_call(t, PLive)
    \/ kstorage_group_size_read(t)

StepLive(t) == AllocLive(t) \/ WriterLive(t) \/ ReaderLive(t)

LockLive(t) == write_kstorage_lock(t) \/ remove_kstorage_lock(t)

NextLive == (\E t \in Threads : StepLive(t) \/ LockLive(t)) \/ rcu_callback

\* Scheduling: every thread that can take a step eventually takes one, and
\* the kernel's spinlocks are fair (a waiter gets the lock if it is free
\* again and again).
SpecLive ==
    /\ Init /\ [][NextLive]_vars
    /\ \A t \in Threads : WF_vars(StepLive(t)) /\ SF_vars(LockLive(t))

\* ------------------------------------------------------------ claims
\* C1. Snapshot atomicity and no use-after-free: while a reader is inside its
\* read-side critical section, the snapshot it loaded and every entry that
\* snapshot references are not freed, every slot is filled, and the snapshot
\* still holds exactly the complete map the group had when the pointer was
\* loaded, whatever writers published since.
C1_SnapshotAtomicity ==
    \A t \in Threads :
        (InRcu(t) /\ loc[t].s # NULL) =>
            /\ Reached(loc[t].s) \cap freed = {}
            /\ \A i \in 1..SizeOf(loc[t].s) : snapshots[loc[t].s][i] # UNINIT
            /\ View(loc[t].s) = loc[t].seen

\* C1 witness: a reader still holds a snapshot that a writer has replaced and
\* handed to the reclaimer, and the group's map has changed since.
C1_Witness ==
    \E t \in Threads :
        /\ InRcu(t) /\ loc[t].s # NULL
        /\ groups[loc[t].gid].snap # loc[t].s
        /\ ref[loc[t].gid] # loc[t].seen
        /\ \E c \in rcu_cbs : c.kind = "s" /\ c.addr = loc[t].s /\ t \in c.wait

C2_WriterExclusion ==
    \A g \in Groups :
        Cardinality({ t \in Threads : pc[t] \in WriterCsPcs /\ loc[t].gid = g }) <= 1

\* The record ids of a snapshot's slots, in array order (an uninitialised slot
\* shows as UNINIT).
DidsOf(s) ==
    [i \in 1..Len(snapshots[s]) |->
        IF snapshots[s][i] = UNINIT THEN UNINIT ELSE kstorages[snapshots[s][i]].did]

\* C4. Sorted-snapshot invariant: every snapshot that is or has been a group's
\* current pointer has all its slots filled and its record ids in strictly
\* increasing order (hence no duplicates).
C4_SortedSnapshots ==
    \A s \in published :
        /\ \A i \in 1..SizeOf(s) : snapshots[s][i] # UNINIT
        /\ \A i, j \in 1..SizeOf(s) : i < j => DidsOf(s)[i] < DidsOf(s)[j]

\* C4 witness: one behaviour has published an insert at the end, one in the
\* middle and one at the front of a non-empty snapshot, and the removal of the
\* first (or last) element of a three-element snapshot.
C4_Witness ==
    /\ \E q, s \in published :
          SizeOf(q) = 2 /\ SizeOf(s) = 3
          /\ snapshots[q] = <<snapshots[s][1], snapshots[s][3]>>
          /\ snapshots[s][2] > snapshots[q][2]
    /\ \E q, s \in published :
          SizeOf(q) >= 1 /\ SizeOf(s) = SizeOf(q) + 1
          /\ snapshots[q] = Tail(snapshots[s])
          /\ \A i \in 1..SizeOf(q) : snapshots[s][1] > snapshots[q][i]
    /\ \E q, s \in published :
          SizeOf(q) >= 1 /\ SizeOf(s) = SizeOf(q) + 1
          /\ snapshots[q] = SubSeq(snapshots[s], 1, SizeOf(q))
          /\ \A i \in 1..SizeOf(q) : snapshots[s][SizeOf(s)] > snapshots[q][i]
    /\ ret.op = "remove" /\ ret.rc = 0
    /\ \E s, r \in published :
          /\ SizeOf(s) = 3 /\ SizeOf(r) = 2
          /\ \E c \in rcu_cbs : c.kind = "s" /\ c.addr = s
          /\ \/ snapshots[r] = SubSeq(snapshots[s], 2, 3)
             \/ snapshots[r] = SubSeq(snapshots[s], 1, 2)

\* No call is in flight: ret is the call that ran last, and the store is as
\* that call left it.
Returned(op) == ret.op = op /\ \A t \in Threads : pc[t] = "idle"

\* The bytes the group of the last completed call holds under that call's
\* record id (a set: empty when the id is absent).
Stored == { p[2] : p \in { q \in ref[ret.gid] : q[1] = ret.did } }

\* C5. Write/read round trip: a read of a written record at offset 0 with
\* len = len(b), when the copy to the destination does not fault, succeeds and
\* delivers b, the empty string included.
C5_RoundTrip ==
    (Returned("read") /\ ret.gid \in Groups /\ ret.offset = 0 /\ ret.rc # 0 - EFAULT) =>
        \A b \in Stored : ret.len = Len(b) => (ret.rc >= 0 /\ ret.out = b)

\* C6. Read offset boundary: for an existing entry of length L, read_kstorage
\* returns -EINVAL exactly when offset < 0 or offset > L, and a read at
\* offset = L succeeds and copies nothing.
C6_OffsetBoundary ==
    (Returned("read") /\ ret.gid \in Groups) =>
        \A b \in Stored :
            /\ (ret.rc = 0 - EINVAL) <=> (ret.offset < 0 \/ ret.offset > Len(b))
            /\ ret.offset = Len(b) => (ret.rc = 0 /\ ret.out = <<>>)

\* C7. Read result value: a successful read of an existing entry of length L
\* with 0 <= offset <= L and len >= 0 copies the min(len, L - offset) bytes
\* from offset on and returns that number.
C7_ReadCount ==
    (Returned("read") /\ ret.gid \in Groups /\ ret.rc >= 0) =>
        \A b \in Stored :
            (0 <= ret.offset /\ ret.offset <= Len(b) /\ ret.len >= 0) =>
                LET n == Min(ret.len, Len(b) - ret.offset)
                IN  /\ ret.out = SubSeq(b, ret.offset + 1, ret.offset + n)
                    /\ ret.rc = n

\* A group id try_alloc_kstroage_group has not handed out: out of range, or in
\* range with no snapshot yet.
Unallocated(gid) == gid \notin Groups \/ groups[gid].snap = NULL

\* C8. Write to an unallocated group is rejected: no write_kstorage call ends
\* in a kernel oops, and a call on a group that is out of range or not yet
\* allocated returns an error, publishes nothing and leaves the lock released.
C8_WriteUnallocatedRejected ==
    /\ \A t \in Threads : ~(pc[t] = "oops" /\ loc[t].op = "write")
    /\ (Returned("write") /\ Unallocated(ret.gid)) =>
          /\ ret.rc < 0
          /\ ret.gid \in Groups => groups[ret.gid].lock = 0

\* C9. Read-side operations reject unallocated groups: kstorage_group_size,
\* on_each_kstorage_elem and list_kstorage_ids on a gid in range that is not
\* yet allocated return -ENOENT, not a success value.
C9_ReadSideUnallocated ==
    (/\ \/ Returned("size") \/ Returned("each") \/ Returned("list")
     /\ ret.gid \in Groups
     /\ groups[ret.gid].snap = NULL) => ret.rc = 0 - ENOENT

\* C10. Capacity bound: the ids handed out are 0, 1, 2, 3 in that order and
\* none after them, a call made when all four are out fails with -1, and the
\* groups handed out keep their contents.
C10_CapacityBound ==
    /\ Len(issued) <= KSTRORAGE_MAX_GROUP_NUM
    /\ \A i \in 1..Len(issued) : issued[i] = i - 1
    /\ (Returned("alloc") /\ Len(issued) = KSTRORAGE_MAX_GROUP_NUM /\ ret.rc < 0)
          => ret.rc = 0 - 1
    /\ \A g \in Groups : View(groups[g].snap) = ref[g]
\* The group ids handed out so far.
IssuedIds == { issued[i] : i \in 1..Len(issued) }

\* C11. Race-safe allocation: no group id is returned to two successful
\* callers, and no allocation re-initialises the lock or replaces the
\* snapshot of a group whose id has already been handed out.
C11_RaceSafeAllocation ==
    /\ \A i, j \in 1..Len(issued) : i # j => issued[i] # issued[j]
    /\ \A t \in Threads :
          pc[t] \in {"a_alloc", "a_publish"} => loc[t].id \notin IssuedIds
\* C12. Monotonic allocation counter: no step of any try_alloc_kstroage_group
\* call, successful or failing, decreases used_max_group, and an id that is
\* handed out is larger than every id handed out before.
C12_MonotonicCounter ==
    [][/\ used_max_group' >= used_max_group
       /\ issued' # issued =>
             \A i \in IssuedIds : issued'[Len(issued')] > i]_vars
\* This step is the return of a call op by thread t that had got past its
\* first checks (it has locals), with a negative result.
FailsLate(t, op) ==
    /\ pc[t] # "idle" /\ loc[t].op = op
    /\ pc'[t] = "idle" /\ ret'.rc < 0

\* This step is a whole call op that returns a negative result at once.
FailsAtOnce(op) ==
    /\ ncalls' = ncalls + 1
    /\ ret' # ret /\ ret'.op = op /\ ret'.rc < 0

\* After this step the group's snapshot pointer, that snapshot's array, the
\* entries and what the reclaimer was given are as gs, ss, hd had them, and
\* the group's lock is free.
LeftAs(gid, gs, ss, hd) ==
    /\ groups'[gid].snap = gs[gid].snap
    /\ gs[gid].snap # NULL => snapshots'[gs[gid].snap] = ss[gs[gid].snap]
    /\ \A k \in 1..Len(kstorages) : kstorages'[k] = kstorages[k]
    /\ ref' = ref
    /\ handed' = hd
    /\ \A c \in rcu_cbs' : <<c.kind, c.addr>> \in BagToSet(hd)
    /\ groups'[gid].lock = 0

\* C13. Write failure atomicity: a write_kstorage call on a group in range
\* that returns an error (-EINVAL for len < 0, -EFAULT, -ENOMEM) leaves the
\* published snapshot pointer and contents as the call found them, has
\* released the entry it was building without handing anything to the
\* reclaimer, and returns with the group lock released.
C13_WriteFailureAtomicity ==
    [][/\ \A t \in Threads :
             (FailsLate(t, "write") /\ loc[t].pre # <<>>) =>
                 /\ LeftAs(loc[t].gid, loc[t].pre[1], loc[t].pre[2], loc[t].pre[3])
                 /\ ret'.rc = 0 - ENOMEM
                 /\ <<"k", loc[t].new_item>> \in freed'
       /\ (FailsAtOnce("write") /\ ret'.gid \in Groups) =>
             /\ LeftAs(ret'.gid, groups, snapshots, handed)
             /\ kstorages' = kstorages
             /\ ret'.rc \in {0 - EINVAL, 0 - EFAULT, 0 - ENOMEM}
             /\ ret'.len < 0 => ret'.rc = 0 - EINVAL]_vars

\* C13 witness: a write on a group that holds a record has failed with
\* -ENOMEM after it had built its entry, which is released and not handed on.
C13_Witness ==
    /\ ret.op = "write" /\ ret.rc = 0 - ENOMEM
    /\ \A t \in Threads : pc[t] = "idle"
    /\ ref[ret.gid] # {}
    /\ \E o \in freed : o[1] = "k" /\ o \notin BagToSet(handed)

\* C14. Remove failure atomicity: remove_kstorage of a record id the group
\* does not hold returns -ENOENT, one whose snapshot clone fails returns
\* -ENOMEM; either way the published snapshot and its size are as the call
\* found them, nothing is handed to the reclaimer and the lock is released.
C14_RemoveFailureAtomicity ==
    [][\A t \in Threads :
          /\ (FailsLate(t, "remove") /\ loc[t].pre # <<>>) =>
                /\ LeftAs(loc[t].gid, loc[t].pre[1], loc[t].pre[2], loc[t].pre[3])
                /\ ret'.rc = IF \E p \in ref[loc[t].gid] : p[1] = loc[t].did
                             THEN 0 - ENOMEM ELSE 0 - ENOENT
          /\ (pc[t] = "m_build" /\ ~\E p \in ref[loc[t].gid] : p[1] = loc[t].did) =>
                (pc'[t] = "m_build" \/ (pc'[t] = "idle" /\ ret'.rc = 0 - ENOENT))]_vars

\* C14 witness: a remove of a record the group holds, beside another record,
\* has failed with -ENOMEM.
C14_Witness ==
    /\ ret.op = "remove" /\ ret.rc = 0 - ENOMEM
    /\ \A t \in Threads : pc[t] = "idle"
    /\ Cardinality(ref[ret.gid]) = 2
\* The record ids of a map m (a set of <<did, data>>).
IdsOf(m) == { p[1] : p \in m }

\* seq lists, in strictly ascending order, the Len(seq) smallest ids of ids.
AscendingPrefix(seq, ids) ==
    /\ \A i \in 1..Len(seq) : seq[i] \in ids
    /\ \A i, j \in 1..Len(seq) : i < j => seq[i] < seq[j]
    /\ \A d \in ids : (\A i \in 1..Len(seq) : seq[i] # d) =>
                          \A i \in 1..Len(seq) : seq[i] < d

\* C15. list_kstorage_ids output: a call that returns a count has written
\* exactly that many ids, the min(idslen, size) smallest ids of the one
\* snapshot it loaded, in strictly ascending order, whatever writers did
\* since; a call in which a copy failed returns -EFAULT, never a count.
C15_ListOutput ==
    [][\A t \in Threads :
          (pc[t] = "l_copy" /\ pc'[t] = "idle") =>
              /\ ret'.rc >= 0 \/ ret'.rc = 0 - EFAULT
              /\ ret'.rc = 0 - EFAULT => loc[t].user
              /\ ret'.rc >= 0 =>
                    /\ ret'.rc = Min(loc[t].len, Cardinality(loc[t].seen))
                    /\ Len(ret'.out) = ret'.rc
                    /\ AscendingPrefix(ret'.out, IdsOf(loc[t].seen))]_vars

\* C15 witness: a list with room for two ids has returned 2 and the ids 1, 2
\* of a group that holds three records.
C15_Witness ==
    /\ ret.op = "list" /\ ret.rc = 2 /\ ret.out = <<1, 2>>
    /\ \A t \in Threads : pc[t] = "idle"
    /\ Cardinality(ref[ret.gid]) = 3

\* The entries a scan has shown its callback so far, after this step.
ScanShown(t) == IF pc'[t] = "idle" THEN ret'.out ELSE loc'[t].data

\* C16. on_each_kstorage_elem scans one fixed snapshot: the entries shown to
\* the callback are, in ascending id order, the first entries of the snapshot
\* loaded at the start of the call, whatever writers published since; the
\* scan stops at the first callback answer that is not 0 and returns it,
\* otherwise it shows every entry and returns 0.
C16_ScanFixedSnapshot ==
    [][\A t \in Threads :
          (pc[t] = "e_loop" /\ pc'[t] \in {"e_loop", "idle"}) =>
              LET seq == ScanShown(t)
                  n   == Len(seq)
              IN  /\ \A i \in 1..n : <<seq[i][1], seq[i][2]>> \in loc[t].seen
                  /\ AscendingPrefix([i \in 1..n |-> seq[i][1]], IdsOf(loc[t].seen))
                  /\ \A i \in 1..(n - 1) : seq[i][3] = 0
                  /\ pc'[t] = "idle" =>
                        IF n > 0 /\ seq[n][3] # 0
                        THEN ret'.rc = seq[n][3]
                        ELSE ret'.rc = 0 /\ n = Cardinality(loc[t].seen)]_vars

\* C16 witness: a scan was stopped by its callback at the second entry, and
\* an entry it was shown has been removed from the group meanwhile.
C16_Witness ==
    /\ ret.op = "each" /\ ret.rc # 0 /\ Len(ret.out) = 2
    /\ \A t \in Threads : pc[t] = "idle"
    /\ \E i \in 1..2 : ret.out[i][1] \notin IdsOf(ref[ret.gid])
Superseded(t) ==
    {<<"s", loc[t].old>>} \cup
    (IF loc[t].idx >= 0 THEN {<<"k", ItemAt(loc[t].old, loc[t].idx)>>} ELSE {})

\* C18. Retirement protocol: the returning step of a successful
\* write_kstorage hands the reclaimer the snapshot it replaced, and the entry
\* it replaced only if the id was present; that of a successful
\* remove_kstorage hands the old snapshot and the removed entry; at the
\* hand-off the new snapshot has been published and the writer is out of the
\* locked section; nothing else is handed over, and nothing twice.
C18_RetirementProtocol ==
    [][/\ \A t \in Threads :
             (pc[t] \in {"w_retire", "m_retire"} /\ pc'[t] = "idle") =>
                 /\ ret'.rc = 0
                 /\ loc[t].old # NULL /\ loc[t].old # loc[t].ns
                 /\ pc[t] = "m_retire" => loc[t].idx >= 0
                 /\ loc[t].idx >= 0 => DidAt(loc[t].old, loc[t].idx) = loc[t].did
                 /\ handed' = handed (+) SetToBag(Superseded(t))
                 /\ loc[t].ns \in published
                 /\ pc[t] \notin WriterCsPcs /\ groups' = groups
       /\ handed' # handed =>
             \E t \in Threads : pc[t] \in {"w_retire", "m_retire"} /\ pc'[t] = "idle"
       /\ \A t \in Threads :
             (pc[t] \in {"w_unlock", "m_unlock"} /\ pc'[t] # pc[t]) =>
                 pc'[t] \in {"w_retire", "m_retire"}
       /\ \A o \in BagToSet(handed') : CopiesIn(o, handed') = 1]_vars

\* C18 witness: after an insert, a replace and a remove the reclaimer has
\* been handed three snapshots and two entries.
C18_Witness ==
    /\ ret.op = "remove" /\ ret.rc = 0
    /\ \A t \in Threads : pc[t] = "idle"
    /\ Cardinality({ o \in BagToSet(handed) : o[1] = "s" }) = 3
    /\ Cardinality({ o \in BagToSet(handed) : o[1] = "k" }) = 2

\* C19. Live entries are never retired: the snapshot a group currently
\* publishes and every entry it references have neither been handed to the
\* reclaimer nor freed.
C19_LiveNeverRetired ==
    \A g \in Groups :
        groups[g].snap # NULL =>
            /\ \A i \in 1..SizeOf(groups[g].snap) : snapshots[groups[g].snap][i] # UNINIT
            /\ Reached(groups[g].snap) \cap (BagToSet(handed) \cup freed) = {}

\* C19 witness: two writers have published one after the other on the same
\* group and neither has reached its hand-off yet, while earlier entries are
\* already with the reclaimer and the group holds records.
C19_Witness ==
    /\ \A t \in Threads : pc[t] \in {"w_retire", "m_retire"}
    /\ loc[1].gid = loc[2].gid
    /\ SizeOf(groups[loc[1].gid].snap) > 0
    /\ \E o \in BagToSet(handed) \cup freed : o[1] = "k"
\* The reader steps of thread t that follow the load of the snapshot pointer.
ReaderFinish(t) == read_kstorage_copy(t, PLive) \/ kstorage_group_size_read(t)

\* C20. Lock release and progress: a group's lock is held only while some
\* writer is between spin_lock and spin_unlock on that group, so whatever
\* way a write or remove returns it has released the lock; under fair
\* scheduling every writer waiting for the lock gets it and every call
\* returns; a reader inside its read section can always take its next step,
\* also while a writer holds the lock.
C20_LockReleaseAndProgress ==
    /\ [](\A g \in Groups : groups[g].lock = 1 =>
            \E t \in Threads : pc[t] \in WriterCsPcs /\ loc[t].gid = g)
    /\ [](\A t \in Threads : InRcu(t) => ENABLED ReaderFinish(t))
    /\ \A t \in Threads :
          /\ (pc[t] \in {"w_lock", "m_lock"}) ~> (pc[t] \in WriterCsPcs)
          /\ (pc[t] # "idle") ~> (pc[t] = "idle")

\* C20 witness: a writer waits for the lock of the group another writer is
\* working on under the lock.
C20_Witness ==
    \E t, u \in Threads :
        /\ pc[t] \in {"w_lock", "m_lock"} /\ pc[u] \in WriterCsPcs
        /\ loc[t].gid = loc[u].gid /\ groups[loc[t].gid].lock = 1
====
